---- MODULE Spec2Model ----
(***************************************************************************)
(* The chat / WebRTC signalling relay of webrtc-from-chat/chat-server.js:  *)
(* the connection registry (connectionArray), the two counters (nextID,    *)
(* appendToMakeUnique) and the three event handlers ("request", "message", *)
(* "close").  Every handler runs to completion on Node's event loop, so    *)
(* each one is a single action.                                            *)
(*                                                                         *)
(* JavaScript values that can be absent are tagged records: Undefined,     *)
(* Null and Str(s).  Inbound frames are restricted to JSON objects whose   *)
(* type is a string, whose id is a number and whose name, text and target  *)
(* are strings or absent.                                                  *)
(***************************************************************************)
EXTENDS Integers, Sequences, FiniteSets, TLC

\* ------------------------------------------------------------------ bounds

\* Connections accepted during the process lifetime.
MaxConn == 3

\* Largest value the suffix counter may reach.
MaxAppend == 3

\* let nextID = Date.now(): some positive integer fixed at start-up.
StartID == 1000

\* Longest chat text handed to the sanitizer on its own.
MaxLen == 6

\* ------------------------------------------------------------- JS values

Undefined == [tag |-> "undefined"]
Null == [tag |-> "null"]
Str(s) == [tag |-> "string", val |-> s]

\* An id that is the clientID of no connection (Date.now() is positive).
NoSuchID == 0

\* getConnectionForID's "let connect = null" (no index of connectionArray).
NullConn == 0

\* Display names a client asks for, and the targets it names.
ReqNames == {Str(""), Str("a"), Str("a1")}
Targets == {Undefined, Str(""), Str("a")}

\* Chat texts, as sequences of characters.
Texts == {Str(<<"<", "b", ">", "h">>)}

\* Message types the switch does not handle: they are passed through.
OpaqueTypes == {"video-offer", "id"}

\* ----------------------------------------------------------------- state

\* A connection object is [clientID, username, connected].  clientID names
\* the object: it is set when the object is pushed and never written again.
VARIABLES
    connectionArray,     \* the registered connection objects, in push order
    closing,             \* clientIDs of the connections whose socket is gone
                         \* and whose "close" event is still to be emitted
    created,             \* clientIDs of all connections accepted so far
    nextID,
    appendToMakeUnique,
    sent,                \* the frames the last handler sent: <<[to, data]>>
    event,               \* the event the last handler processed
    crashed,             \* an exception left a handler: the process is gone
    stripIn,             \* a chat text handed to the sanitizer on its own
    stripOut             \* what the sanitizer returned for it, call by call

vars == <<connectionArray, closing, created, nextID, appendToMakeUnique,
          sent, event, crashed, stripIn, stripOut>>

NoMsg == [type |-> "none", id |-> NoSuchID, name |-> Undefined,
          text |-> Undefined, target |-> Undefined]

Init ==
    /\ connectionArray = <<>>
    /\ closing = {}
    /\ created = <<>>
    /\ nextID = StartID
    /\ appendToMakeUnique = 1
    /\ sent = <<>>
    /\ event = [op |-> "start", h |-> NoSuchID, msg |-> NoMsg]
    /\ crashed = FALSE
    /\ stripIn = Str(<<>>)
    /\ stripOut = <<>>

\* --------------------------------------------------------------- helpers

\* JSON.stringify of a message object: properties whose value is undefined
\* are left out.
JSONstringify(m) ==
    [k \in {"type", "id"} \cup {f \in {"name", "text", "target"} : m[f] # Undefined}
        |-> m[k]]

\* JSON.stringify of an array element: undefined becomes null.
JSONelement(v) == IF v = Undefined THEN Null ELSE v

\* The replace without the g flag: only the first match is removed.
RECURSIVE stripFromFirstOnly(_, _)
stripFromFirstOnly(s, i) ==
    IF i > Len(s) THEN <<>>
    ELSE LET closers == {j \in (i + 2)..Len(s) : s[j] = ">"}
         IN  IF s[i] = "<" /\ i + 1 <= Len(s) /\ s[i + 1] # ">" /\ closers # {}
             THEN LET j == CHOOSE c \in closers : \A d \in closers : c <= d
                  IN  SubSeq(s, j + 1, Len(s))
             ELSE <<s[i]>> \o stripFromFirstOnly(s, i + 1)

\* text.replace(/(<([^>]+)>)/gi, ""): scanning from the left, a "<" followed
\* by at least one character other than ">" and then a ">" is removed up to
\* and including the first ">" after it; the scan goes on after the match.
RECURSIVE stripFrom(_, _)
stripFrom(s, i) ==
    IF i > Len(s) THEN <<>>
    ELSE LET closers == {j \in (i + 2)..Len(s) : s[j] = ">"}
         IN  IF s[i] = "<" /\ i + 1 <= Len(s) /\ s[i + 1] # ">" /\ closers # {}
             THEN LET j == CHOOSE c \in closers : \A d \in closers : c <= d
                  IN  stripFrom(s, j + 1)
             ELSE <<s[i]>> \o stripFrom(s, i + 1)

strip(t) == Str(stripFrom(t.val, 1))

\* isUsernameUnique with the scan started at the second connection.
isUsernameUniqueSkipFirst(name) ==
    \A i \in DOMAIN connectionArray : i > 1 => connectionArray[i].username # name

\* isUsernameUnique without the scan of connectionArray.
isUsernameUniqueUnchecked(name) == TRUE

isUsernameUnique(name) ==
    \A i \in DOMAIN connectionArray : connectionArray[i].username # name

\* The index in connectionArray of the first connection with that clientID,
\* or NullConn.
getConnectionForID(id) ==
    LET hits == {i \in DOMAIN connectionArray : connectionArray[i].clientID = id}
    IN  IF hits = {} THEN NullConn
        ELSE CHOOSE i \in hits : \A j \in hits : i <= j

makeUserListMessage(arr) ==
    [type |-> "userlist",
     users |-> [i \in DOMAIN arr |-> JSONelement(arr[i].username)]]

\* sendUserListToAll with the loop started at the second connection.
sendUserListToAllButFirst(arr) ==
    [i \in 1..(Len(arr) - 1) |->
        [to |-> arr[i + 1].clientID, data |-> makeUserListMessage(arr)]]

sendUserListToAll(arr) ==
    [i \in DOMAIN arr |-> [to |-> arr[i].clientID, data |-> makeUserListMessage(arr)]]

\* The loop leaving the suffix counter where it started the process.
RECURSIVE makeUniqueCounterReset(_, _, _, _)
makeUniqueCounterReset(name, origName, counter, nameChanged) ==
    IF isUsernameUnique(name)
    THEN [name |-> name, counter |-> 1, nameChanged |-> nameChanged]
    ELSE makeUniqueCounterReset(Str(origName.val \o ToString(counter)), origName,
                                counter + 1, TRUE)

\* The loop as an if: one suffix is appended and not checked again.
makeUniqueOneTry(name, origName, counter, nameChanged) ==
    IF isUsernameUnique(name)
    THEN [name |-> name, counter |-> counter, nameChanged |-> nameChanged]
    ELSE [name |-> Str(origName.val \o ToString(counter)), counter |-> counter + 1,
          nameChanged |-> TRUE]

\* The while loop of the "username" case: the name it ends with, the counter
\* it leaves and nameChanged.
RECURSIVE makeUnique(_, _, _, _)
makeUnique(name, origName, counter, nameChanged) ==
    IF isUsernameUnique(name)
    THEN [name |-> name, counter |-> counter, nameChanged |-> nameChanged]
    ELSE makeUnique(Str(origName.val \o ToString(counter)), origName, counter + 1, TRUE)

\* What a piece of code did: the frames it sent, or an exception thrown.
Sends(frames) == [throw |-> FALSE, frames |-> frames]
Throws == [throw |-> TRUE, frames |-> <<>>]

\* sendToOneUser sending to every connection instead of the one found.
sendToOneUserEveryone(target, msgString) ==
    Sends([i \in DOMAIN connectionArray |->
            [to |-> connectionArray[i].clientID, data |-> msgString]])

\* sendToOneUser: find() gives the first connection of that name, or
\* undefined, and calling send on undefined throws a TypeError.
sendToOneUser(target, msgString) ==
    LET hits == {i \in DOMAIN connectionArray : connectionArray[i].username = target}
    IN  IF hits = {} THEN Throws
        ELSE Sends(<<[to |-> connectionArray[CHOOSE i \in hits : \A j \in hits : i <= j].clientID,
                      data |-> msgString]>>)

\* The broadcast loop skipping the connections that have no username yet.
sendToAllNamed(msgString) ==
    LET named == SelectSeq(connectionArray, LAMBDA el : el.username # Undefined)
    IN  [i \in DOMAIN named |-> [to |-> named[i].clientID, data |-> msgString]]

\* for (const connection of connectionArray) connection.send(msgString)
sendToAll(msgString) ==
    [i \in DOMAIN connectionArray |->
        [to |-> connectionArray[i].clientID, data |-> msgString]]

\* msg.target && msg.target.length !== 0
hasTarget(msg) == msg.target # Undefined /\ msg.target.val # ""

\* if (sendToClients) { ... }
dispatch(msg) ==
    IF hasTarget(msg)
    THEN sendToOneUser(msg.target, JSONstringify(msg))
    ELSE Sends(sendToAll(JSONstringify(msg)))

\* The "request" handler also sending the user list to the connections
\* registered before.
requestSendsWithRoster(id) ==
    <<[to |-> id, data |-> [type |-> "id", id |-> id]]>>
    \o sendUserListToAll(connectionArray)

\* The frames the "request" handler sends to the connection it accepted.
requestSends(id) == <<[to |-> id, data |-> [type |-> "id", id |-> id]]>>

\* --------------------------------------------------------------- actions

\* The "request" handler without nextID++.
OnRequestSameID ==
    /\ ~crashed
    /\ Len(created) < MaxConn
    /\ connectionArray' = Append(connectionArray,
            [clientID |-> nextID, username |-> Undefined, connected |-> TRUE])
    /\ created' = Append(created, nextID)
    /\ nextID' = nextID
    /\ sent' = requestSends(nextID)
    /\ event' = [op |-> "request", h |-> nextID, msg |-> NoMsg]
    /\ UNCHANGED <<closing, appendToMakeUnique, crashed, stripIn, stripOut>>

\* wsServer.on("request"): originIsAllowed is always true.
OnRequest ==
    /\ ~crashed
    /\ Len(created) < MaxConn
    /\ connectionArray' = Append(connectionArray,
            [clientID |-> nextID, username |-> Undefined, connected |-> TRUE])
    /\ created' = Append(created, nextID)
    /\ nextID' = nextID + 1
    /\ sent' = requestSends(nextID)
    /\ event' = [op |-> "request", h |-> nextID, msg |-> NoMsg]
    /\ UNCHANGED <<closing, appendToMakeUnique, crashed, stripIn, stripOut>>

\* An exception leaves the handler: nothing more is sent and the process ends.
Throw(h, m) ==
    /\ crashed' = TRUE
    /\ sent' = <<>>
    /\ event' = [op |-> "message", h |-> h, msg |-> m]

\* The handler returns.
Return(h, m, frames) ==
    /\ crashed' = crashed
    /\ sent' = frames
    /\ event' = [op |-> "message", h |-> h, msg |-> m]

\* case "message", then the dispatch.  connect.username throws when connect
\* is null, msg.text.replace when the message has no text.
ChatMessage(h, m) ==
    LET connect == getConnectionForID(m.id)
    IN  /\ m.type = "message"
        /\ IF connect = NullConn \/ m.text = Undefined
           THEN Throw(h, m)
           ELSE LET msg == [m EXCEPT !.name = connectionArray[connect].username,
                                     !.text = strip(m.text)]
                    out == dispatch(msg)
                IN  IF out.throw THEN Throw(h, m) ELSE Return(h, m, out.frames)
        /\ UNCHANGED <<connectionArray, closing, created, nextID, appendToMakeUnique>>

\* case "username"
UsernameMessage(h, m) ==
    LET connect == getConnectionForID(m.id)
        res == makeUnique(m.name, m.name, appendToMakeUnique, FALSE)
        changeMsg == [id |-> m.id, type |-> "rejectusername", name |-> res.name]
    IN  /\ m.type = "username"
        /\ res.counter <= MaxAppend
        /\ appendToMakeUnique' = res.counter
        /\ IF connect = NullConn
           THEN /\ Throw(h, m)
                /\ connectionArray' = connectionArray
           ELSE /\ connectionArray' =
                     [connectionArray EXCEPT ![connect].username = res.name]
                /\ Return(h, m,
                     (IF res.nameChanged
                      THEN <<[to |-> connectionArray[connect].clientID, data |-> changeMsg]>>
                      ELSE <<>>)
                     \o sendUserListToAll(connectionArray'))
        /\ UNCHANGED <<closing, created, nextID>>

\* The pass-through drawing a fresh id for the message it relays.
OpaqueMessageTakesID(h, m) ==
    LET out == dispatch(m)
    IN  /\ m.type \in OpaqueTypes
        /\ IF out.throw THEN Throw(h, m) ELSE Return(h, m, out.frames)
        /\ nextID' = nextID + 1
        /\ UNCHANGED <<connectionArray, closing, created, appendToMakeUnique>>

\* any other type: passed through to the dispatch
OpaqueMessage(h, m) ==
    LET out == dispatch(m)
    IN  /\ m.type \in OpaqueTypes
        /\ IF out.throw THEN Throw(h, m) ELSE Return(h, m, out.frames)
        /\ UNCHANGED <<connectionArray, closing, created, nextID, appendToMakeUnique>>

\* A utf8 frame that is not JSON, as the handler sees it.
Unparsable == [NoMsg EXCEPT !.type = "unparsable"]

\* JSON.parse(message.utf8Data) throws a SyntaxError.
UnparsableFrame(h, m) ==
    /\ m = Unparsable
    /\ Throw(h, m)
    /\ UNCHANGED <<connectionArray, closing, created, nextID, appendToMakeUnique>>

\* The connections whose "message" handler can still be called.
Senders == {connectionArray[i].clientID :
                i \in {j \in DOMAIN connectionArray : connectionArray[j].connected}}

\* The ids a client may put in a message: one handed out so far, or none.
IDs == {created[i] : i \in DOMAIN created} \cup {NoSuchID}

\* connection.on("message") of connection h, for a utf8 frame holding m
OnMessage ==
    /\ ~crashed
    /\ UNCHANGED <<stripIn, stripOut>>
    /\ \E h \in Senders :
        \/ \E id \in {h, NoSuchID}, target \in Targets, text \in Texts :
            ChatMessage(h, [type |-> "message", id |-> id, name |-> Undefined,
                            text |-> text, target |-> target])
        \/ \E id \in IDs, name \in ReqNames :
            UsernameMessage(h, [type |-> "username", id |-> id, name |-> name,
                                   text |-> Undefined, target |-> Undefined])
        \/ \E type \in OpaqueTypes, target \in Targets :
            OpaqueMessage(h, [type |-> type, id |-> h, name |-> Undefined,
                              text |-> Undefined, target |-> target])
        \/ ChatMessage(h, [type |-> "message", id |-> h, name |-> Undefined,
                           text |-> Undefined, target |-> Undefined])
        \/ UnparsableFrame(h, Unparsable)

\* The transport sees a connection go away: the library clears its connected
\* flag; the "close" event is emitted later, once.
SocketClose ==
    /\ ~crashed
    /\ \E i \in DOMAIN connectionArray :
        /\ connectionArray[i].connected
        /\ connectionArray' = [connectionArray EXCEPT ![i].connected = FALSE]
        /\ closing' = closing \cup {connectionArray[i].clientID}
        /\ event' = [op |-> "socketclose", h |-> connectionArray[i].clientID, msg |-> NoMsg]
    /\ sent' = <<>>
    /\ UNCHANGED <<created, nextID, appendToMakeUnique, crashed, stripIn, stripOut>>

\* The "close" handler without the filter of connectionArray.
OnCloseKeepsAll ==
    /\ ~crashed
    /\ \E h \in closing :
        /\ closing' = closing \ {h}
        /\ connectionArray' = connectionArray
        /\ sent' = sendUserListToAll(connectionArray')
        /\ event' = [op |-> "close", h |-> h, msg |-> NoMsg]
    /\ UNCHANGED <<created, nextID, appendToMakeUnique, crashed, stripIn, stripOut>>

\* connection.on("close") of connection h
OnClose ==
    /\ ~crashed
    /\ \E h \in closing :
        /\ closing' = closing \ {h}
        /\ connectionArray' = SelectSeq(connectionArray, LAMBDA el : el.connected)
        /\ sent' = sendUserListToAll(connectionArray')
        /\ event' = [op |-> "close", h |-> h, msg |-> NoMsg]
    /\ UNCHANGED <<created, nextID, appendToMakeUnique, crashed, stripIn, stripOut>>

\* The sanitizer of the "message" case applied on its own: to the text first,
\* then to what it returned.
Sanitize ==
    /\ Len(stripOut) < 2
    /\ stripOut' = Append(stripOut,
                          strip(IF stripOut = <<>> THEN stripIn ELSE stripOut[Len(stripOut)]))
    /\ UNCHANGED <<connectionArray, closing, created, nextID, appendToMakeUnique,
                   sent, event, crashed, stripIn>>

Next == OnRequest \/ OnMessage \/ SocketClose \/ OnClose

Spec == Init /\ [][Next]_vars

\* The characters of the texts the sanitizer is tried on.
Chars == {"<", ">", "a"}

\* The server with some chat text about to be sanitized.
StripInit ==
    /\ connectionArray = <<>>
    /\ closing = {}
    /\ created = <<>>
    /\ nextID = StartID
    /\ appendToMakeUnique = 1
    /\ sent = <<>>
    /\ event = [op |-> "start", h |-> NoSuchID, msg |-> NoMsg]
    /\ crashed = FALSE
    /\ stripIn \in {Str(s) : s \in UNION {[1..n -> Chars] : n \in 0..MaxLen}}
    /\ stripOut = <<>>

StripNext == Sanitize

StripSpec == StripInit /\ [][StripNext]_vars

\* ---------------------------------------------------------------- claims

Indices == DOMAIN connectionArray
RegisteredIDs == {connectionArray[i].clientID : i \in Indices}
FramesOfType(type) == SelectSeq(sent, LAMBDA f : f.data.type = type)

\* The registered connection object with that clientID.
Session(id) == connectionArray[CHOOSE i \in Indices : connectionArray[i].clientID = id]

\* The last event was a username-change request and its handler returned.
UsernameProcessed ==
    event.op = "message" /\ event.msg.type = "username" /\ ~crashed

\* The last event was a chat message with a text, sent under the sender's
\* own id, or a message of a type the server passes through.
RoutedEvent ==
    /\ event.op = "message"
    /\ event.msg.type \in OpaqueTypes \cup {"message"}
    /\ event.msg.type = "message"
       => (event.msg.id = event.h /\ event.msg.text # Undefined)

\* The roster as it goes over the wire: the display names in registry order,
\* null for a session that has no name yet.
RosterNow ==
    [i \in Indices |-> IF connectionArray[i].username = Undefined
                       THEN Null ELSE connectionArray[i].username]

\* C1: in every reachable state, any two distinct registered sessions that
\* have been granted a display name hold different display names.
C1_NameUniqueness ==
    \A i, j \in Indices :
        (/\ i # j
         /\ connectionArray[i].username # Undefined
         /\ connectionArray[j].username # Undefined)
        => connectionArray[i].username # connectionArray[j].username

\* A request for a name another session holds was just granted with a suffix.
C1_Witness ==
    /\ UsernameProcessed
    /\ FramesOfType("rejectusername") # <<>>
    /\ \E i \in Indices : connectionArray[i].username = event.msg.name
    /\ Cardinality({i \in Indices : connectionArray[i].username # Undefined}) >= 2

\* C2: a disconnect event and a processed username-change request send, to
\* every registered session and to nobody else, exactly one roster, in
\* registry order, listing the display names as they are after the event.
C2_RosterCompleteness ==
    (event.op = "close" \/ UsernameProcessed)
    => FramesOfType("userlist") =
         [i \in Indices |->
            [to |-> connectionArray[i].clientID,
             data |-> [type |-> "userlist", users |-> RosterNow]]]

\* A disconnect left two sessions, one of them named, and both got the roster.
C2_Witness ==
    /\ event.op = "close"
    /\ Len(connectionArray) = 2
    /\ \E i \in Indices : connectionArray[i].username # Undefined
    /\ Len(sent) = 2

C4_DirectedRouting ==
    (/\ RoutedEvent
     /\ hasTarget(event.msg)
     /\ \E i \in Indices : connectionArray[i].username = event.msg.target)
    => /\ ~crashed
       /\ Len(sent) = 1
       /\ sent[1].to \in RegisteredIDs
       /\ Session(sent[1].to).username = event.msg.target
       /\ sent[1].data.type = event.msg.type
       /\ sent[1].data.target = event.msg.target

\* A directed message reached its target with the sender and a third session
\* registered.
C4_Witness ==
    /\ RoutedEvent
    /\ hasTarget(event.msg)
    /\ Len(connectionArray) = 3
    /\ Len(sent) = 1
    /\ sent[1].to # event.h

\* C5: a chat or passed-through message with no target, or an empty one, is
\* sent exactly once to every registered session, the sender and the unnamed
\* sessions included, and to nobody else.
C5_BroadcastRouting ==
    (RoutedEvent /\ ~hasTarget(event.msg))
    => /\ ~crashed
       /\ \A id \in RegisteredIDs :
            Cardinality({k \in DOMAIN sent : sent[k].to = id}) = 1
       /\ \A k \in DOMAIN sent :
            /\ sent[k].to \in RegisteredIDs
            /\ sent[k].data.type = event.msg.type

\* A message with an empty target was broadcast while an unnamed session was
\* registered.
C5_Witness ==
    /\ RoutedEvent
    /\ event.msg.target = Str("")
    /\ Len(sent) = 3
    /\ \E i \in Indices : connectionArray[i].username = Undefined
    /\ \E k \in DOMAIN sent : sent[k].to = event.h

\* C6 as stated: a directed message whose non-empty target is no registered
\* display name is dropped: nothing is sent and no exception leaves the
\* handler.
C6_UnresolvableTargetDropped ==
    (/\ RoutedEvent
     /\ hasTarget(event.msg)
     /\ \A i \in Indices : connectionArray[i].username # event.msg.target)
    => (~crashed /\ sent = <<>>)

\* C7 as stated: a processed username-change request sends a rejectusername
\* if and only if the name granted to the requesting session differs from
\* the requested one; the notice goes to the requesting session alone and
\* carries the granted name, which is then that session's display name.
C7_RenameNotice ==
    UsernameProcessed
    => LET granted == Session(event.h).username
           notices == FramesOfType("rejectusername")
       IN  /\ (notices # <<>>) <=> (granted # event.msg.name)
           /\ notices # <<>> =>
                /\ Len(notices) = 1
                /\ notices[1].to = event.h
                /\ notices[1].data.name = granted

\* The display name of the registered session with that clientID.
UsernameOf(arr, id) ==
    arr[CHOOSE i \in DOMAIN arr : arr[i].clientID = id].username

\* C8 as stated: a session that requests the display name it currently holds
\* is granted it unchanged: no suffix, no rejectusername, the suffix counter
\* is not advanced, and a roster is still broadcast.
C8_OwnNameKept ==
    [][(/\ event'.op = "message"
        /\ event'.msg.type = "username"
        /\ event'.msg.id = event'.h
        /\ ~crashed'
        /\ event'.msg.name = UsernameOf(connectionArray, event'.h))
       => (/\ UsernameOf(connectionArray', event'.h) = event'.msg.name
           /\ appendToMakeUnique' = appendToMakeUnique
           /\ \A k \in DOMAIN sent' : sent'[k].data.type # "rejectusername"
           /\ \A i \in DOMAIN connectionArray' :
                \E k \in DOMAIN sent' :
                    /\ sent'[k].to = connectionArray'[i].clientID
                    /\ sent'[k].data.type = "userlist")]_vars

\* The clientIDs of the registry, in order.
IdsOf(arr) == [i \in DOMAIN arr |-> arr[i].clientID]

\* s is t with some elements left out.
RECURSIVE IsSubSeq(_, _)
IsSubSeq(s, t) ==
    IF s = <<>> THEN TRUE
    ELSE IF t = <<>> THEN FALSE
    ELSE IF Head(s) = Head(t) THEN IsSubSeq(Tail(s), Tail(t))
    ELSE IsSubSeq(s, Tail(t))

\* C9: every accepted connection gets its sessionId once, when it connects;
\* no two sessions ever created share a sessionId, and no event changes the
\* sessionId of a registered session: a step keeps the registry's ids, drops
\* some of them, or appends one that was never handed out before.
C9_SessionIds ==
    /\ [](/\ \A i, j \in DOMAIN created : i # j => created[i] # created[j]
          /\ \A i, j \in Indices :
                i # j => connectionArray[i].clientID # connectionArray[j].clientID
          /\ RegisteredIDs \subseteq {created[i] : i \in DOMAIN created})
    /\ [][\/ IsSubSeq(IdsOf(connectionArray'), IdsOf(connectionArray))
          \/ /\ event'.op = "request"
             /\ created' = Append(created, event'.h)
             /\ IdsOf(connectionArray') = Append(IdsOf(connectionArray), event'.h)
             /\ \A i \in DOMAIN created : created[i] # event'.h]_vars

\* Three sessions were created, one is gone again and one was renamed.
C9_Witness ==
    /\ Len(created) = 3
    /\ Len(connectionArray) = 2
    /\ UsernameProcessed
    /\ Session(event.h).username # Undefined

\* C10 as stated: the only id message a session ever receives is the one the
\* connect event sends it: it carries the session's own sessionId, goes to
\* that session alone and is the first frame sent to it.
C10_IdentityAssignment ==
    /\ \A k \in DOMAIN sent :
         sent[k].data.type = "id"
         => (event.op = "request" /\ sent[k].to = event.h /\ sent[k].data.id = event.h)
    /\ event.op = "request"
       => (/\ sent # <<>>
           /\ sent[1] = [to |-> event.h, data |-> [type |-> "id", id |-> event.h]]
           /\ Len(FramesOfType("id")) = 1)

\* The sessions whose disconnect event has been processed: accepted once,
\* their socket is gone and their "close" event is not pending any more.
ClosedIDs ==
    {id \in {created[i] : i \in DOMAIN created} :
        /\ id \notin closing
        /\ \A i \in Indices :
              connectionArray[i].clientID = id => ~connectionArray[i].connected}

\* C11: once a session's disconnect event has been processed the session is
\* not in the registry, no frame (roster, broadcast or directed) is sent to
\* it, and no later event brings it back: it stays closed and unregistered.
C11_ClosedIsTerminal ==
    /\ [](/\ ClosedIDs \cap RegisteredIDs = {}
          /\ \A k \in DOMAIN sent : sent[k].to \notin ClosedIDs)
    /\ [][\A id \in ClosedIDs :
            /\ id \in ClosedIDs'
            /\ \A i \in DOMAIN connectionArray' : connectionArray'[i].clientID # id]_vars

\* A session is closed, and a later broadcast reached the two that remain.
C11_Witness ==
    /\ ClosedIDs # {}
    /\ RoutedEvent
    /\ Len(connectionArray) = 2
    /\ Len(sent) = 2

\* The frame of the last event could not be decoded as a message the handler
\* can process: it is not JSON, it is a chat message without text, or it is a
\* chat or username message whose id names no registered session.
MalformedEvent ==
    /\ event.op = "message"
    /\ \/ event.msg = Unparsable
       \/ event.msg.type = "message" /\ event.msg.text = Undefined
       \/ /\ event.msg.type \in {"message", "username"}
          /\ event.msg.id \notin RegisteredIDs

\* C12 as stated: a malformed frame is dropped: no exception leaves the
\* handler and nothing is sent to any session.
C12_MalformedFrameDropped ==
    MalformedEvent => (~crashed /\ sent = <<>>)

\* C13 as stated: the empty string is never granted: a request for it is
\* always answered with a changed name, and no registered session has the
\* empty string as its display name.
C13_EmptyNameNeverGranted ==
    /\ \A i \in Indices : connectionArray[i].username # Str("")
    /\ (UsernameProcessed /\ event.msg.name = Str(""))
       => FramesOfType("rejectusername") # <<>>

\* The step is the handling of a username-change request.
UsernameStep == event'.op = "message" /\ event'.msg.type = "username"

\* C14: the retry loop of a username-change makes at most (registered
\* sessions + 1) uniqueness checks (every failed check advances the suffix
\* counter by one, and one last check succeeds), and the name it grants is
\* the display name of no session registered when the request is handled.
C14_AllocatorConvergence ==
    [][UsernameStep
       => /\ (appendToMakeUnique' - appendToMakeUnique) + 1 <= Len(connectionArray) + 1
          /\ ~crashed'
             => \A i \in Indices :
                  connectionArray[i].username
                    # UsernameOf(connectionArray', event'.msg.id)]_vars

\* Two checks failed: "a" and "a1" were taken and "a2" was granted.
C14_Witness ==
    /\ UsernameProcessed
    /\ event.msg.name = Str("a")
    /\ appendToMakeUnique = 3
    /\ \E i \in Indices : connectionArray[i].username = Str("a")
    /\ \E i \in Indices : connectionArray[i].username = Str("a1")
    /\ \E i \in Indices : connectionArray[i].username = Str("a2")
    /\ \E k \in DOMAIN sent :
         sent[k].data.type = "rejectusername" /\ sent[k].data.name = Str("a2")

\* C15: sanitizing a text that was already sanitized gives the same text:
\* strip(strip(s)) = strip(s).
C15_SanitizationIdempotent ==
    Len(stripOut) = 2 => stripOut[2] = stripOut[1]

\* A text lost a tag, kept a ">" and was sanitized twice.
C15_Witness ==
    /\ Len(stripOut) = 2
    /\ stripOut[1] # stripIn
    /\ \E i \in DOMAIN stripOut[1].val : stripOut[1].val[i] = ">"

\* C16 as stated: a username-change request that arrives on the connection
\* of session S changes the display name of S only and sends its
\* rejectusername to S only, whatever id the message carries.
C16_RequesterIsolation ==
    [][(UsernameStep /\ ~crashed')
       => /\ \A i \in Indices :
               connectionArray[i].clientID # event'.h
               => connectionArray'[i].username = connectionArray[i].username
          /\ \A k \in DOMAIN sent' :
               sent'[k].data.type = "rejectusername" => sent'[k].to = event'.h]_vars

\* C17: the suffix counter never decreases and only a username-change
\* request advances it; a request that is answered with a changed name used
\* the counter values from the old one up to the new one minus one, each for
\* one candidate, and was granted the last: no value is used a second time.
C17_SuffixCounter ==
    [][/\ appendToMakeUnique' >= appendToMakeUnique
       /\ ~UsernameStep => appendToMakeUnique' = appendToMakeUnique
       /\ UsernameStep
          => \A k \in DOMAIN sent' :
                sent'[k].data.type = "rejectusername"
                => /\ appendToMakeUnique' > appendToMakeUnique
                   /\ sent'[k].data.name =
                        Str(event'.msg.name.val \o ToString(appendToMakeUnique' - 1))]_vars

\* After a session was closed, a request was granted a name with suffix 2.
C17_Witness ==
    /\ ClosedIDs # {}
    /\ UsernameProcessed
    /\ appendToMakeUnique = 3
    /\ \E k \in DOMAIN sent :
         /\ sent[k].data.type = "rejectusername"
         /\ sent[k].data.name = Str(event.msg.name.val \o "2")

\* C18: requests are handled one at a time in arrival order: a session that
\* asks, under its own id, for a name nobody holds is granted it unchanged
\* without a rejectusername; one that asks for a name another session holds
\* is granted a different name, which no other session holds, and receives
\* the one rejectusername that carries it.
C18_ArrivalOrder ==
    [][(UsernameStep /\ ~crashed' /\ event'.msg.id = event'.h)
       => LET n == event'.msg.name
              granted == UsernameOf(connectionArray', event'.h)
              notices == SelectSeq(sent', LAMBDA f : f.data.type = "rejectusername")
          IN  /\ (\A i \in Indices : connectionArray[i].username # n)
                 => (granted = n /\ notices = <<>>)
              /\ (\E i \in Indices :
                    /\ connectionArray[i].clientID # event'.h
                    /\ connectionArray[i].username = n)
                 => /\ granted # n
                    /\ notices = <<[to |-> event'.h,
                                    data |-> [id |-> event'.h, type |-> "rejectusername",
                                              name |-> granted]]>>
                    /\ \A i \in DOMAIN connectionArray' :
                          connectionArray'[i].clientID # event'.h
                          => connectionArray'[i].username # granted]_vars

\* The second requester of "a" was renamed while the first one holds "a".
C18_Witness ==
    /\ UsernameProcessed
    /\ event.msg.id = event.h
    /\ event.msg.name = Str("a")
    /\ Session(event.h).username = Str("a1")
    /\ \E i \in Indices :
         /\ connectionArray[i].clientID < event.h
         /\ connectionArray[i].username = Str("a")

\* C19 as stated: the disconnect event of session S removes S and nothing
\* else: the other sessions stay, in the same order and unchanged, and when S
\* is not in the registry any more the registry is left as it was.
C19_DisconnectFrame ==
    [][event'.op = "close"
       => connectionArray' =
            SelectSeq(connectionArray, LAMBDA el : el.clientID # event'.h)]_vars

\* The sessions of the registry with their ids and display names, in order.
RegistryView(arr) ==
    [i \in DOMAIN arr |-> [clientID |-> arr[i].clientID, username |-> arr[i].username]]

\* C20: handling a chat message or a message of any passed-through type
\* leaves the registry, the suffix counter and the next-id counter as they
\* were; a step that changes any of them handles a connect, a username-change
\* or a disconnect event.
C20_RoutingKeepsRegistry ==
    [][/\ (event'.op = "message" /\ event'.msg.type # "username")
          => /\ connectionArray' = connectionArray
             /\ appendToMakeUnique' = appendToMakeUnique
             /\ nextID' = nextID
       /\ (\/ RegistryView(connectionArray') # RegistryView(connectionArray)
           \/ appendToMakeUnique' # appendToMakeUnique
           \/ nextID' # nextID)
          => (event'.op \in {"request", "close"} \/ UsernameStep)]_vars

\* A chat message was routed between two named sessions after a rename.
C20_Witness ==
    /\ RoutedEvent
    /\ event.msg.type = "message"
    /\ ~crashed
    /\ appendToMakeUnique = 2
    /\ Len(connectionArray) = 2
    /\ \A i \in Indices : connectionArray[i].username # Undefined

====
